---- MODULE Spec2Model ----
(***************************************************************************)
(* Model of jupyter_cpp_kernel/kernel.py: RealTimeSubprocess (a Popen with *)
(* one drain thread and one Queue per output stream) and its caller        *)
(* CppKernel.do_execute, which runs the compiler and then the executable,  *)
(* each under a poll / write_contents loop.                                *)
(*                                                                         *)
(* The bytes the children write are numbered 1, 2, 3, ... in the order     *)
(* written, over all streams, so that loss, duplication and reordering are *)
(* visible, within a stream and across streams.                            *)
(***************************************************************************)
EXTENDS Integers, Sequences, FiniteSets, TLC

\* Bound of the model: the number of bytes the children write altogether.
MaxOut == 2

\* stream.read(4096), kernel.py line 41.
ChunkSize == 4096

\* Bound of ChunkSpec: the number of write calls the children make altogether.
MaxBlocks == 1

\* The sizes of the blocks a child writes in ChunkSpec: one byte, exactly one
\* read's worth, and one byte more than that.
BlockSizes == {1, ChunkSize, ChunkSize + 1}

\* Handle 1 is the compiler process (line 169), handle 2 the executable (line 182).
Handles == {1, 2}
Streams == {"stdout", "stderr"}
ExitCodes == {0, 1}

VARIABLES
    pc,          \* position of do_execute
    phase,       \* 1: compile part of do_execute, 2: execute part
    p,           \* the handle the local variable p of do_execute holds, 0 before line 169
    raised,      \* the exception that left do_execute, or "none"
    iopub,       \* the stream messages sent so far (callbacks and kernel diagnostics)
    proc,        \* per handle: the OS process, "none" | "running" | "exited"
    exitcode,    \* per handle: the code the OS child exited with
    returncode,  \* per handle: Popen.returncode, <<>> for None, <<c>> once poll saw the exit
    written,     \* per handle and stream: all bytes the child has written
    nwrites,     \* the number of write calls the children have made so far
    pipe,        \* per handle and stream: bytes written and not yet read
    thread,      \* per handle and stream: the drain thread
    line,        \* per handle and stream: the chunk the drain thread holds (loop variable line)
    closed,      \* per handle and stream: stream.close() was called
    hasQueue,    \* per handle and stream: the Queue object exists
    queue,       \* per handle and stream: the Queue, a sequence of chunks
    wcpc,        \* position inside write_contents / read_all_from_queue
    cur,         \* the stream read_all_from_queue is working on
    res,         \* local res of read_all_from_queue
    size,        \* local size of read_all_from_queue
    snapq,       \* ghost: the content of the queue at the time of the qsize() snapshot
    errAtPoll    \* ghost: a drain thread of p had died of a read error when the
                 \* last poll was issued (kept until the write_contents after it returns)

vars == <<pc, phase, p, raised, iopub, proc, exitcode, returncode, written, nwrites, pipe,
          thread, line, closed, hasQueue, queue, wcpc, cur, res, size, snapq, errAtPoll>>

callerVars == <<pc, phase, p, raised, iopub, returncode, wcpc, cur, res, size, snapq,
                errAtPoll>>
childVars == <<proc, exitcode, written, nwrites>>
drainVars == <<thread, line, closed>>

----------------------------------------------------------------------------
\* Helpers

Min(a, b) == IF a < b THEN a ELSE b

RECURSIVE Flatten(_)
\* b''.join(chunks): the concatenation of a sequence of chunks.
Flatten(chunks) ==
    IF chunks = <<>> THEN <<>> ELSE Head(chunks) \o Flatten(Tail(chunks))

\* A callback invocation made by write_contents of handle h for stream s.
Callback(h, s, data) == [via |-> "callback", handle |-> h, name |-> s, data |-> data]

\* A message the kernel writes itself with self._write_to_stderr.
Diag(h, tag) == [via |-> "kernel", handle |-> h, name |-> "stderr", data |-> tag]

RECURSIVE Delivered(_, _, _)
\* The concatenation of everything passed to the callback of stream s of handle h.
Delivered(msgs, h, s) ==
    IF msgs = <<>> THEN <<>>
    ELSE LET m == Head(msgs)
         IN  (IF m.via = "callback" /\ m.handle = h /\ m.name = s THEN m.data ELSE <<>>)
             \o Delivered(Tail(msgs), h, s)

RECURSIVE SumLen(_, _)
SumLen(f, S) ==
    IF S = {} THEN 0
    ELSE LET x == CHOOSE y \in S : TRUE IN Len(f[x]) + SumLen(f, S \ {x})

\* The number of bytes written so far by all children to all streams.
TotalWritten(w) ==
    LET all == [hs \in Handles \X Streams |-> w[hs[1]][hs[2]]]
    IN  SumLen(all, Handles \X Streams)

InWriteContents == pc \in {"loop_wc", "final_wc"}

----------------------------------------------------------------------------
Init ==
    /\ pc = "spawn"
    /\ phase = 1
    /\ p = 0
    /\ raised = "none"
    /\ iopub = <<>>
    /\ proc = [h \in Handles |-> "none"]
    /\ exitcode = [h \in Handles |-> 0]
    /\ returncode = [h \in Handles |-> <<>>]
    /\ written = [h \in Handles |-> [s \in Streams |-> <<>>]]
    /\ nwrites = 0
    /\ pipe = [h \in Handles |-> [s \in Streams |-> <<>>]]
    /\ thread = [h \in Handles |-> [s \in Streams |-> "none"]]
    /\ line = [h \in Handles |-> [s \in Streams |-> <<>>]]
    /\ closed = [h \in Handles |-> [s \in Streams |-> FALSE]]
    /\ hasQueue = [h \in Handles |-> [s \in Streams |-> FALSE]]
    /\ queue = [h \in Handles |-> [s \in Streams |-> <<>>]]
    /\ wcpc = "idle"
    /\ cur = "stdout"
    /\ res = <<>>
    /\ size = 0
    /\ snapq = <<>>
    /\ errAtPoll = FALSE

----------------------------------------------------------------------------
\* RealTimeSubprocess.__init__ reached through create_jupyter_subprocess

\* Line 106, then Popen.__init__ (line 24) succeeds and lines 26-34 create the
\* two queues and start the two drain threads.
SpawnOk ==
    /\ pc = "spawn"
    /\ iopub' = Append(iopub, Diag(phase, "running cmd"))
    /\ proc' = [proc EXCEPT ![phase] = "running"]
    /\ hasQueue' = [hasQueue EXCEPT ![phase] = [s \in Streams |-> TRUE]]
    /\ thread' = [thread EXCEPT ![phase] = [s \in Streams |-> "reading"]]
    /\ p' = phase
    /\ pc' = "poll"
    /\ UNCHANGED <<phase, raised, exitcode, returncode, written, nwrites, pipe, line, closed,
                   queue, wcpc, cur, res, size, snapq, errAtPoll>>

\* Mutant of SpawnFail: the queues and drain threads are set up before the
\* process constructor raises.
SpawnFailLeaky ==
    /\ pc = "spawn"
    /\ iopub' = Append(iopub, Diag(phase, "running cmd"))
    /\ hasQueue' = [hasQueue EXCEPT ![phase] = [s \in Streams |-> TRUE]]
    /\ thread' = [thread EXCEPT ![phase] = [s \in Streams |-> "reading"]]
    /\ raised' = "SpawnError"
    /\ pc' = "raised"
    /\ UNCHANGED <<phase, p, proc, exitcode, returncode, written, nwrites, pipe, line,
                   closed, queue, wcpc, cur, res, size, snapq, errAtPoll>>

\* Line 106, then Popen.__init__ (line 24) raises: lines 26-34 are not reached
\* and the exception leaves do_execute.
SpawnFail ==
    /\ pc = "spawn"
    /\ iopub' = Append(iopub, Diag(phase, "running cmd"))
    /\ raised' = "SpawnError"
    /\ pc' = "raised"
    /\ UNCHANGED <<phase, p, proc, exitcode, returncode, written, nwrites, pipe, thread, line,
                   closed, hasQueue, queue, wcpc, cur, res, size, snapq, errAtPoll>>

----------------------------------------------------------------------------
\* The child process

ChildWrite(h, s) ==
    /\ proc[h] = "running"
    /\ TotalWritten(written) < MaxOut
    /\ LET b == TotalWritten(written) + 1
       IN  /\ written' = [written EXCEPT ![h][s] = Append(@, b)]
           /\ pipe' = [pipe EXCEPT ![h][s] = Append(@, b)]
    /\ nwrites' = nwrites + 1
    /\ UNCHANGED <<proc, exitcode, queue, hasQueue>>
    /\ UNCHANGED callerVars
    /\ UNCHANGED drainVars

\* The child writes a block of n bytes to a stream with one write call.
ChildWriteBlock(h, s, n) ==
    /\ proc[h] = "running"
    /\ nwrites < MaxBlocks
    /\ LET first == TotalWritten(written)
           block == [i \in 1..n |-> first + i]
       IN  /\ written' = [written EXCEPT ![h][s] = @ \o block]
           /\ pipe' = [pipe EXCEPT ![h][s] = @ \o block]
    /\ nwrites' = nwrites + 1
    /\ UNCHANGED <<proc, exitcode, queue, hasQueue>>
    /\ UNCHANGED callerVars
    /\ UNCHANGED drainVars

\* The child terminates; the write ends of both pipes are closed with it.
ChildExit(h, c) ==
    /\ proc[h] = "running"
    /\ proc' = [proc EXCEPT ![h] = "exited"]
    /\ exitcode' = [exitcode EXCEPT ![h] = c]
    /\ UNCHANGED <<written, nwrites, pipe, queue, hasQueue>>
    /\ UNCHANGED callerVars
    /\ UNCHANGED drainVars

----------------------------------------------------------------------------
\* RealTimeSubprocess._enqueue_output, one thread per handle and stream

\* Mutant of DrainRead: one thread drains stdout to its end before stderr.
DrainReadSequential(h, s) ==
    /\ thread[h][s] = "reading"
    /\ pipe[h][s] # <<>>
    /\ s = "stderr" => thread[h]["stdout"] \in {"terminated", "crashed"}
    /\ LET n == Min(Len(pipe[h][s]), ChunkSize)
       IN  /\ line' = [line EXCEPT ![h][s] = SubSeq(pipe[h][s], 1, n)]
           /\ pipe' = [pipe EXCEPT ![h][s] = SubSeq(@, n + 1, Len(@))]
    /\ thread' = [thread EXCEPT ![h][s] = "put"]
    /\ UNCHANGED <<closed, queue, hasQueue>>
    /\ UNCHANGED callerVars
    /\ UNCHANGED childVars

\* Mutant of DrainRead: the read returns all the bytes available.
DrainReadUncapped(h, s) ==
    /\ thread[h][s] = "reading"
    /\ pipe[h][s] # <<>>
    /\ line' = [line EXCEPT ![h][s] = pipe[h][s]]
    /\ pipe' = [pipe EXCEPT ![h][s] = <<>>]
    /\ thread' = [thread EXCEPT ![h][s] = "put"]
    /\ UNCHANGED <<closed, queue, hasQueue>>
    /\ UNCHANGED callerVars
    /\ UNCHANGED childVars

\* stream.read(4096) returns the bytes available, at most 4096 of them.
DrainRead(h, s) ==
    /\ thread[h][s] = "reading"
    /\ pipe[h][s] # <<>>
    /\ LET n == Min(Len(pipe[h][s]), ChunkSize)
       IN  /\ line' = [line EXCEPT ![h][s] = SubSeq(pipe[h][s], 1, n)]
           /\ pipe' = [pipe EXCEPT ![h][s] = SubSeq(@, n + 1, Len(@))]
    /\ thread' = [thread EXCEPT ![h][s] = "put"]
    /\ UNCHANGED <<closed, queue, hasQueue>>
    /\ UNCHANGED callerVars
    /\ UNCHANGED childVars

\* Mutant of DrainPut: the drain thread passes the chunk to the callback itself.
DrainPutDirect(h, s) ==
    /\ thread[h][s] = "put"
    /\ iopub' = Append(iopub, Callback(h, s, line[h][s]))
    /\ line' = [line EXCEPT ![h][s] = <<>>]
    /\ thread' = [thread EXCEPT ![h][s] = "reading"]
    /\ UNCHANGED <<closed, pipe, hasQueue, queue>>
    /\ UNCHANGED <<pc, phase, p, raised, returncode, wcpc, cur, res, size, snapq, errAtPoll>>
    /\ UNCHANGED childVars

\* Mutant of DrainPut: both threads were handed the stdout queue.
DrainPutSameQueue(h, s) ==
    /\ thread[h][s] = "put"
    /\ queue' = [queue EXCEPT ![h]["stdout"] = Append(@, line[h][s])]
    /\ line' = [line EXCEPT ![h][s] = <<>>]
    /\ thread' = [thread EXCEPT ![h][s] = "reading"]
    /\ UNCHANGED <<closed, pipe, hasQueue>>
    /\ UNCHANGED callerVars
    /\ UNCHANGED childVars

\* queue.put(line), line 42.
DrainPut(h, s) ==
    /\ thread[h][s] = "put"
    /\ queue' = [queue EXCEPT ![h][s] = Append(@, line[h][s])]
    /\ line' = [line EXCEPT ![h][s] = <<>>]
    /\ thread' = [thread EXCEPT ![h][s] = "reading"]
    /\ UNCHANGED <<closed, pipe, hasQueue>>
    /\ UNCHANGED callerVars
    /\ UNCHANGED childVars

\* Mutant of DrainEof: the loop ends and the stream is left open.
DrainEofNoClose(h, s) ==
    /\ thread[h][s] = "reading"
    /\ pipe[h][s] = <<>>
    /\ proc[h] = "exited"
    /\ thread' = [thread EXCEPT ![h][s] = "terminated"]
    /\ UNCHANGED <<line, closed, pipe, queue, hasQueue>>
    /\ UNCHANGED callerVars
    /\ UNCHANGED childVars

\* stream.read returns b'' at end of data: the loop ends and line 43 closes the stream.
DrainEof(h, s) ==
    /\ thread[h][s] = "reading"
    /\ pipe[h][s] = <<>>
    /\ proc[h] = "exited"
    /\ closed' = [closed EXCEPT ![h][s] = TRUE]
    /\ thread' = [thread EXCEPT ![h][s] = "terminated"]
    /\ UNCHANGED <<line, pipe, queue, hasQueue>>
    /\ UNCHANGED callerVars
    /\ UNCHANGED childVars

\* stream.read raises an I/O error: nothing in _enqueue_output catches it, the
\* thread dies with the exception and line 43 is not reached.
DrainError(h, s) ==
    /\ thread[h][s] = "reading"
    /\ thread' = [thread EXCEPT ![h][s] = "crashed"]
    /\ UNCHANGED <<line, closed, pipe, queue, hasQueue>>
    /\ UNCHANGED callerVars
    /\ UNCHANGED childVars

----------------------------------------------------------------------------
\* do_execute: p.poll(), lines 170 and 183

\* Mutant of PollResult: any terminated child is reported as exited with 0.
PollResultZero(h) == IF proc[h] = "exited" THEN <<0>> ELSE <<>>

\* Popen.poll(): the return code once the child has terminated, else None.
PollResult(h) ==
    IF returncode[h] # <<>> THEN returncode[h]
    ELSE IF proc[h] = "exited" THEN <<exitcode[h]>> ELSE <<>>

\* Mutant of Poll: the poll also delivers what is queued for stdout.
PollDrains ==
    /\ pc = "poll"
    /\ returncode' = [returncode EXCEPT ![p] = PollResult(p)]
    /\ pc' = IF PollResult(p) = <<>> THEN "loop_wc" ELSE "final_wc"
    /\ wcpc' = "qsize"
    /\ cur' = "stdout"
    /\ errAtPoll' = (\E s \in Streams : thread[p][s] = "crashed")
    /\ queue' = [queue EXCEPT ![p]["stdout"] = <<>>]
    /\ iopub' = IF queue[p]["stdout"] # <<>>
                THEN Append(iopub, Callback(p, "stdout", Flatten(queue[p]["stdout"])))
                ELSE iopub
    /\ UNCHANGED <<phase, p, raised, res, size, snapq, pipe, hasQueue>>
    /\ UNCHANGED childVars
    /\ UNCHANGED drainVars

Poll ==
    /\ pc = "poll"
    /\ returncode' = [returncode EXCEPT ![p] = PollResult(p)]
    /\ pc' = IF PollResult(p) = <<>> THEN "loop_wc" ELSE "final_wc"
    /\ wcpc' = "qsize"
    /\ cur' = "stdout"
    /\ errAtPoll' = (\E s \in Streams : thread[p][s] = "crashed")
    /\ UNCHANGED <<phase, p, raised, iopub, res, size, snapq, pipe, queue, hasQueue>>
    /\ UNCHANGED childVars
    /\ UNCHANGED drainVars

----------------------------------------------------------------------------
\* RealTimeSubprocess.write_contents, lines 45-64

\* Mutant of QSize: the size is always taken from the stdout queue.
QSizeStdoutOnly ==
    /\ InWriteContents
    /\ wcpc = "qsize"
    /\ res' = <<>>
    /\ size' = Len(queue[p]["stdout"])
    /\ snapq' = queue[p][cur]
    /\ wcpc' = "get"
    /\ UNCHANGED <<pc, phase, p, raised, iopub, returncode, cur, pipe, queue, hasQueue,
                   errAtPoll>>
    /\ UNCHANGED childVars
    /\ UNCHANGED drainVars

\* res = b''; size = queue.qsize(), lines 52-53.
QSize ==
    /\ InWriteContents
    /\ wcpc = "qsize"
    /\ res' = <<>>
    /\ size' = Len(queue[p][cur])
    /\ snapq' = queue[p][cur]
    /\ wcpc' = "get"
    /\ UNCHANGED <<pc, phase, p, raised, iopub, returncode, cur, pipe, queue, hasQueue,
                   errAtPoll>>
    /\ UNCHANGED childVars
    /\ UNCHANGED drainVars

\* Mutant of Get: the chunk is read and left in the queue.
GetPeek ==
    /\ InWriteContents
    /\ wcpc = "get"
    /\ size # 0
    /\ queue[p][cur] # <<>>
    /\ res' = res \o Head(queue[p][cur])
    /\ size' = size - 1
    /\ UNCHANGED <<raised, pc, wcpc, queue>>
    /\ UNCHANGED <<phase, p, iopub, returncode, cur, snapq, pipe, hasQueue, errAtPoll>>
    /\ UNCHANGED childVars
    /\ UNCHANGED drainVars

\* Mutant of Get: the loop takes whatever is queued now, not the snapshot.
GetAll ==
    /\ InWriteContents
    /\ wcpc = "get"
    /\ size # 0
    /\ res' = res \o Flatten(queue[p][cur])
    /\ queue' = [queue EXCEPT ![p][cur] = <<>>]
    /\ size' = 0
    /\ UNCHANGED <<raised, pc, wcpc>>
    /\ UNCHANGED <<phase, p, iopub, returncode, cur, snapq, pipe, hasQueue, errAtPoll>>
    /\ UNCHANGED childVars
    /\ UNCHANGED drainVars

\* Mutant of Get: a blocking get() in a loop that never counts down.
GetBlocking ==
    /\ InWriteContents
    /\ wcpc = "get"
    /\ size # 0
    /\ queue[p][cur] # <<>>
    /\ res' = res \o Head(queue[p][cur])
    /\ queue' = [queue EXCEPT ![p][cur] = Tail(@)]
    /\ UNCHANGED <<raised, pc, wcpc, size>>
    /\ UNCHANGED <<phase, p, iopub, returncode, cur, snapq, pipe, hasQueue, errAtPoll>>
    /\ UNCHANGED childVars
    /\ UNCHANGED drainVars

\* One round of the while loop, lines 54-56; get_nowait raises queue.Empty on
\* an empty queue and the exception leaves write_contents and do_execute.
Get ==
    /\ InWriteContents
    /\ wcpc = "get"
    /\ size # 0
    /\ IF queue[p][cur] = <<>>
       THEN /\ raised' = "Empty"
            /\ pc' = "raised"
            /\ wcpc' = "idle"
            /\ UNCHANGED <<res, size, queue>>
       ELSE /\ res' = res \o Head(queue[p][cur])
            /\ queue' = [queue EXCEPT ![p][cur] = Tail(@)]
            /\ size' = size - 1
            /\ UNCHANGED <<raised, pc, wcpc>>
    /\ UNCHANGED <<phase, p, iopub, returncode, cur, snapq, pipe, hasQueue, errAtPoll>>
    /\ UNCHANGED childVars
    /\ UNCHANGED drainVars

\* Mutant of Deliver: the callback is called without the test of lines 60 and 63.
DeliverAlways ==
    /\ InWriteContents
    /\ wcpc = "get"
    /\ size = 0
    /\ iopub' = Append(iopub, Callback(p, cur, res))
    /\ res' = <<>>
    /\ snapq' = <<>>
    /\ IF cur = "stdout"
       THEN /\ cur' = "stderr"
            /\ wcpc' = "qsize"
            /\ pc' = pc
            /\ errAtPoll' = errAtPoll
       ELSE /\ cur' = "stdout"
            /\ wcpc' = "idle"
            /\ pc' = IF pc = "loop_wc" THEN "poll" ELSE "check"
            /\ errAtPoll' = FALSE
    /\ UNCHANGED <<phase, p, raised, returncode, size, pipe, queue, hasQueue>>
    /\ UNCHANGED childVars
    /\ UNCHANGED drainVars

\* Mutant of Deliver: the contents are passed to the other stream's callback.
DeliverSwapped ==
    /\ InWriteContents
    /\ wcpc = "get"
    /\ size = 0
    /\ iopub' = IF res # <<>>
                THEN Append(iopub, Callback(p, IF cur = "stdout" THEN "stderr" ELSE "stdout", res))
                ELSE iopub
    /\ res' = <<>>
    /\ snapq' = <<>>
    /\ IF cur = "stdout"
       THEN /\ cur' = "stderr"
            /\ wcpc' = "qsize"
            /\ pc' = pc
            /\ errAtPoll' = errAtPoll
       ELSE /\ cur' = "stdout"
            /\ wcpc' = "idle"
            /\ pc' = IF pc = "loop_wc" THEN "poll" ELSE "check"
            /\ errAtPoll' = FALSE
    /\ UNCHANGED <<phase, p, raised, returncode, size, pipe, queue, hasQueue>>
    /\ UNCHANGED childVars
    /\ UNCHANGED drainVars

\* The loop ends (line 57) and lines 60-61 or 63-64 call the callback when the
\* contents are not empty; after stderr write_contents returns to do_execute.
Deliver ==
    /\ InWriteContents
    /\ wcpc = "get"
    /\ size = 0
    /\ iopub' = IF res # <<>> THEN Append(iopub, Callback(p, cur, res)) ELSE iopub
    /\ res' = <<>>
    /\ snapq' = <<>>
    /\ IF cur = "stdout"
       THEN /\ cur' = "stderr"
            /\ wcpc' = "qsize"
            /\ pc' = pc
            /\ errAtPoll' = errAtPoll
       ELSE /\ cur' = "stdout"
            /\ wcpc' = "idle"
            /\ pc' = IF pc = "loop_wc" THEN "poll" ELSE "check"
            /\ errAtPoll' = FALSE
    /\ UNCHANGED <<phase, p, raised, returncode, size, pipe, queue, hasQueue>>
    /\ UNCHANGED childVars
    /\ UNCHANGED drainVars

----------------------------------------------------------------------------
\* do_execute after the final write_contents: lines 173-179 and 187-189

\* Mutant of Check: a non-zero exit code is raised as an exception.
CheckRaises ==
    /\ pc = "check"
    /\ IF returncode[p] # <<0>>
       THEN /\ raised' = "CalledProcessError"
            /\ pc' = "raised"
            /\ phase' = phase
       ELSE /\ raised' = raised
            /\ pc' = IF phase = 1 THEN "spawn" ELSE "return"
            /\ phase' = IF phase = 1 THEN 2 ELSE phase
    /\ UNCHANGED <<p, iopub, returncode, wcpc, cur, res, size, snapq, errAtPoll, pipe,
                   queue, hasQueue>>
    /\ UNCHANGED childVars
    /\ UNCHANGED drainVars

\* Mutant of Check: the compiler's return code is not looked at.
CheckIgnoresCompile ==
    /\ pc = "check"
    /\ IF phase = 2 /\ returncode[p] # <<0>>
       THEN /\ iopub' = Append(iopub, Diag(p, "exit code"))
            /\ pc' = "return"
            /\ phase' = phase
       ELSE /\ iopub' = iopub
            /\ pc' = IF phase = 1 THEN "spawn" ELSE "return"
            /\ phase' = IF phase = 1 THEN 2 ELSE phase
    /\ UNCHANGED <<p, raised, returncode, wcpc, cur, res, size, snapq, errAtPoll, pipe,
                   queue, hasQueue>>
    /\ UNCHANGED childVars
    /\ UNCHANGED drainVars

Check ==
    /\ pc = "check"
    /\ IF returncode[p] # <<0>>
       THEN /\ iopub' = Append(iopub, Diag(p, "exit code"))
            /\ pc' = "return"
            /\ phase' = phase
       ELSE /\ iopub' = iopub
            /\ pc' = IF phase = 1 THEN "spawn" ELSE "return"
            /\ phase' = IF phase = 1 THEN 2 ELSE phase
    /\ UNCHANGED <<p, raised, returncode, wcpc, cur, res, size, snapq, errAtPoll, pipe,
                   queue, hasQueue>>
    /\ UNCHANGED childVars
    /\ UNCHANGED drainVars

----------------------------------------------------------------------------
Caller == SpawnOk \/ SpawnFail \/ Poll \/ QSize \/ Get \/ Deliver \/ Check

Child == \E h \in Handles :
            \/ \E s \in Streams : ChildWrite(h, s)
            \/ \E c \in ExitCodes : ChildExit(h, c)

Drain(h, s) == DrainRead(h, s) \/ DrainPut(h, s) \/ DrainEof(h, s) \/ DrainError(h, s)

Next ==
    \/ Caller
    \/ Child
    \/ \E h \in Handles, s \in Streams : Drain(h, s)

Spec == Init /\ [][Next]_vars

\* A drain thread step other than a read error.
DrainStep(h, s) == DrainRead(h, s) \/ DrainPut(h, s) \/ DrainEof(h, s)

\* The program while no stream read raises an I/O error.
NextOk ==
    \/ Caller
    \/ Child
    \/ \E h \in Handles, s \in Streams : DrainStep(h, s)

\* The caller never blocks, so the scheduler keeps running it; nothing is
\* assumed of the child or of the drain threads.
CallerFairSpec == Init /\ [][NextOk]_vars /\ WF_vars(Caller)

\* The same program with no fairness assumed of anybody.
NoErrorSpec == Init /\ [][NextOk]_vars

\* The children write whole blocks, as large as or larger than one read.
ChunkChild == \E h \in Handles :
                 \/ \E s \in Streams : \E n \in BlockSizes : ChildWriteBlock(h, s, n)
                 \/ \E c \in ExitCodes : ChildExit(h, c)

\* The compile part of do_execute up to the test of line 173 (the poll loop
\* and the final write_contents), with the children of ChunkChild and drain
\* threads whose reads do not fail.
ChunkNext ==
    \/ SpawnOk \/ Poll \/ QSize \/ Get \/ Deliver
    \/ ChunkChild
    \/ \E h \in Handles, s \in Streams : DrainStep(h, s)

ChunkSpec == Init /\ [][ChunkNext]_vars

----------------------------------------------------------------------------
\* Derived state used by the properties

\* The bytes write_contents has taken out of the queue of (h, s) and not yet
\* passed to the callback.
InFlight(h, s) == IF InWriteContents /\ wcpc = "get" /\ p = h /\ cur = s THEN res ELSE <<>>

\* The final write_contents on handle h has returned.
FinalFlushDone(h) ==
    /\ returncode[h] # <<>>
    /\ ~(p = h /\ pc = "final_wc")
    /\ raised # "Empty"

\* The bytes the drain thread of (h, s) has put into its queue so far.
PutSoFar(h, s) == Delivered(iopub, h, s) \o InFlight(h, s) \o Flatten(queue[h][s])

NoReadError(h) == \A s \in Streams : thread[h][s] # "crashed"

IsCallback(m) == m.via = "callback"

Msgs == {iopub[i] : i \in 1..Len(iopub)}

\* The callback invocations made so far, in order.
Callbacks == SelectSeq(iopub, IsCallback)

----------------------------------------------------------------------------
\* C1: once the caller has polled and flushed as do_execute does and the final
\* write_contents has returned, the bytes delivered to each callback are exactly
\* the bytes the child wrote to that stream (no read error having occurred).
C1_AllOutputDelivered ==
    \A h \in Handles : \A s \in Streams :
        (FinalFlushDone(h) /\ NoReadError(h)) => Delivered(iopub, h, s) = written[h][s]

----------------------------------------------------------------------------
\* C2 as stated: in every state, what was delivered followed by what is queued
\* is what the drain thread has read, i.e. what was written less what is still
\* in the pipe.
C2_DeliveredThenQueuedIsRead ==
    \A h \in Handles : \A s \in Streams :
        Delivered(iopub, h, s) \o Flatten(queue[h][s]) \o pipe[h][s] = written[h][s]

\* C2 amended: in every state and for each stream, the bytes delivered, then the
\* bytes the running write_contents has dequeued and not yet delivered, then the
\* queued chunks, then the chunk the drain thread has read and not yet put, then
\* the bytes still in the pipe, are exactly the bytes written, in order.
C2_Conservation ==
    \A h \in Handles : \A s \in Streams :
        Delivered(iopub, h, s) \o InFlight(h, s) \o Flatten(queue[h][s])
            \o line[h][s] \o pipe[h][s] = written[h][s]

\* A flush has delivered a first slice and a later flush a second slice of one stream.
C2_Witness ==
    \E h \in Handles : \E s \in Streams :
        /\ Len(written[h][s]) = 2
        /\ Delivered(iopub, h, s) = written[h][s]
        /\ Cardinality({i \in 1..Len(iopub) :
               IsCallback(iopub[i]) /\ iopub[i].handle = h /\ iopub[i].name = s}) = 2

----------------------------------------------------------------------------
\* C3: while read_all_from_queue is dequeuing, the chunks of the snapshot not
\* yet removed are the front of the queue and everything put after the
\* snapshot is behind them, in order; when the loop ends res is the
\* concatenation of exactly the snapshot's chunks, it is passed to the callback
\* as one argument, and the chunks put after the snapshot stay queued.
C3_SnapshotState ==
    (InWriteContents /\ wcpc = "get") =>
        /\ size \in 0..Len(snapq)
        /\ Len(queue[p][cur]) >= size
        /\ SubSeq(queue[p][cur], 1, size) = SubSeq(snapq, Len(snapq) - size + 1, Len(snapq))
        /\ res = Flatten(SubSeq(snapq, 1, Len(snapq) - size))
        /\ Delivered(iopub, p, cur) \o Flatten(snapq)
              \o Flatten(SubSeq(queue[p][cur], size + 1, Len(queue[p][cur])))
              \o line[p][cur] \o pipe[p][cur] = written[p][cur]

C3_DeliverStep ==
    (InWriteContents /\ wcpc = "get" /\ wcpc' # "get" /\ pc' # "raised") =>
        /\ res = Flatten(snapq)
        /\ iopub' = IF snapq # <<>> THEN Append(iopub, Callback(p, cur, Flatten(snapq)))
                    ELSE iopub
        /\ queue' = queue

C3_FlushTakesSnapshot == [](C3_SnapshotState) /\ [][C3_DeliverStep]_vars

\* The loop has removed the chunks of its snapshot and a chunk put after the
\* snapshot is still queued.
C3_Witness ==
    /\ InWriteContents /\ wcpc = "get" /\ size = 0
    /\ snapq # <<>>
    /\ queue[p][cur] # <<>>

----------------------------------------------------------------------------
\* C4: a write_contents call is never blocked (one of its steps is enabled in
\* every state, whatever the child and the drain threads do), each round of the
\* loop lowers size by one from the snapshot length down to 0, and with the
\* caller scheduled fairly every call returns.
C4_NeverBlocked ==
    (InWriteContents /\ wcpc \in {"qsize", "get"}) =>
        /\ ENABLED (QSize \/ Get \/ Deliver)
        /\ wcpc = "get" => size \in 0..Len(snapq)

C4_GetStep ==
    (InWriteContents /\ wcpc = "get" /\ size # 0
        /\ <<pc, wcpc, res, size, raised>>' # <<pc, wcpc, res, size, raised>>) =>
            (size' = size - 1 /\ wcpc' = "get" /\ pc' = pc /\ raised' = raised)

C4_FlushTerminates ==
    /\ [](C4_NeverBlocked)
    /\ [][C4_GetStep]_vars
    /\ (InWriteContents ~> ~InWriteContents)

\* A write_contents call on a running child has returned to the poll loop after
\* dequeuing, while a chunk put during the call is queued.
C4_Witness ==
    /\ pc = "poll"
    /\ proc[p] = "running"
    /\ \E s \in Streams : Delivered(iopub, p, s) # <<>> /\ queue[p][s] # <<>>

----------------------------------------------------------------------------
\* C5: no callback is ever invoked with an empty byte sequence, and no callback
\* of a stream is invoked while the child has written nothing to that stream.
C5_NoEmptyCallback ==
    \A i \in 1..Len(iopub) :
        IsCallback(iopub[i]) =>
            /\ iopub[i].data # <<>>
            /\ written[iopub[i].handle][iopub[i].name] # <<>>

\* The poll loop and the final write_contents have run on a child that wrote
\* to stdout only: every flush found the stderr queue empty.
C5_Witness ==
    /\ pc = "check"
    /\ written[p]["stdout"] # <<>>
    /\ written[p]["stderr"] = <<>>
    /\ Delivered(iopub, p, "stdout") = written[p]["stdout"]
    /\ \A i \in 1..Len(iopub) : IsCallback(iopub[i]) => iopub[i].name = "stdout"

----------------------------------------------------------------------------
\* C6: a callback is invoked only in a step of write_contents (the end of
\* read_all_from_queue, taken by the caller), never in a step of a drain
\* thread, and one step invokes at most one callback.
C6_CallbackStep ==
    (Callbacks' # Callbacks) =>
        /\ InWriteContents /\ wcpc = "get" /\ size = 0
        /\ Callbacks' = Append(Callbacks, Callback(p, cur, res))
        /\ thread' = thread /\ line' = line /\ queue' = queue /\ pipe' = pipe

C6_CallbacksOnlyInFlush == [][C6_CallbackStep]_vars

\* A callback has been invoked while a drain thread was still reading.
C6_Witness ==
    \E s \in Streams :
        /\ p \in Handles
        /\ Delivered(iopub, p, s) # <<>>
        /\ thread[p][s] = "put"

----------------------------------------------------------------------------
\* C7: when the process constructor raises, the exception reaches the caller in
\* that same step and the handle gets no drain thread, no queue and no process.
C7_FailStep ==
    (raised = "none" /\ raised' = "SpawnError") =>
        /\ pc = "spawn" /\ pc' = "raised"
        /\ thread' = thread /\ hasQueue' = hasQueue /\ queue' = queue /\ proc' = proc

C7_FailState ==
    raised = "SpawnError" =>
        /\ pc = "raised"
        /\ proc[phase] = "none"
        /\ \A s \in Streams : thread[phase][s] = "none" /\ ~hasQueue[phase][s]

C7_SpawnErrorNoDrainTasks == [](C7_FailState) /\ [][C7_FailStep]_vars

\* Spawning the executable failed after the compiler ran.
C7_Witness == raised = "SpawnError" /\ phase = 2 /\ thread[1]["stdout"] # "none"

----------------------------------------------------------------------------
\* C8: a poll reports running (None) exactly when the child has not terminated
\* at the time of the call, otherwise the child's exit code; a return code once
\* reported never changes and a further poll would report it again.
C8_PollStep ==
    (pc = "poll" /\ pc' # "poll") =>
        /\ returncode'[p] = IF proc[p] = "exited" THEN <<exitcode[p]>> ELSE <<>>
        /\ pc' = IF proc[p] = "exited" THEN "final_wc" ELSE "loop_wc"

C8_Stable ==
    \A h \in Handles :
        returncode[h] # <<>> =>
            /\ returncode'[h] = returncode[h]
            /\ proc'[h] = "exited"
            /\ exitcode'[h] = exitcode[h]

C8_State ==
    \A h \in Handles :
        /\ returncode[h] # <<>> => (proc[h] = "exited" /\ PollResult(h) = <<exitcode[h]>>)
        /\ proc[h] # "exited" => PollResult(h) = <<>>

C8_PollReportsState == [](C8_State) /\ [][C8_PollStep /\ C8_Stable]_vars

\* Poll has reported the exit code 1 of the executable.
C8_Witness == p = 2 /\ returncode[2] = <<1>> /\ pc = "return"

----------------------------------------------------------------------------
\* C9: absent read errors, if the drain thread of one stream is scheduled
\* fairly (nothing being assumed of the other drain threads, of the caller or
\* of the child), then again and again every byte the child has written to that
\* stream so far has been put into that stream's queue; and a drain thread
\* holding a chunk can always put it (the queue is unbounded).
C9_PutNeverBlocks ==
    \A h \in Handles : \A s \in Streams :
        thread[h][s] = "put" => ENABLED DrainPut(h, s)

----------------------------------------------------------------------------
\* C10: when a drain thread of the handle had died of a read error before a
\* poll was issued, then by the time the write_contents call that follows that
\* poll returns, the error is visible to the caller, as an exception or as a
\* message.
ReadErrorVisible == raised = "ReadError" \/ \E m \in Msgs : m.data = "read error"

C10_Step ==
    (InWriteContents /\ ~InWriteContents' /\ errAtPoll) => ReadErrorVisible'

C10_ReadErrorSurfaced == [][C10_Step]_vars

----------------------------------------------------------------------------
\* C11: a drain thread that met a read error has closed its stream and ended,
\* as at end of data; the step of the error touches nothing but that thread
\* (queued chunks, the other thread and the caller are left alone), and no
\* exception other than a failed spawn ever reaches the caller.
C11_ErrorState ==
    /\ \A h \in Handles : \A s \in Streams : thread[h][s] = "crashed" => closed[h][s]
    /\ raised \in {"none", "SpawnError"}

C11_ErrorStep ==
    \A h \in Handles : \A s \in Streams :
        (thread[h][s] # "crashed" /\ thread'[h][s] = "crashed") =>
            /\ queue' = queue
            /\ \A t \in Streams \ {s} : thread'[h][t] = thread[h][t]
            /\ UNCHANGED callerVars

C11_ReadErrorLikeEof == [](C11_ErrorState) /\ [][C11_ErrorStep]_vars

----------------------------------------------------------------------------
\* C12: a poll changes neither output buffer, delivers nothing (the messages
\* sent stay the same), leaves both drain threads and the pipes as they are,
\* and changes nothing of the process but the recorded return code.
C12_PollStep ==
    (pc = "poll" /\ pc' # "poll") =>
        /\ queue' = queue
        /\ iopub' = iopub
        /\ thread' = thread /\ line' = line /\ closed' = closed
        /\ pipe' = pipe /\ written' = written
        /\ res' = res /\ raised' = raised

C12_PollLeavesOutput == [][C12_PollStep]_vars

\* A poll has just returned while chunks of both streams were queued.
C12_Witness ==
    /\ InWriteContents /\ wcpc = "qsize" /\ cur = "stdout"
    /\ queue[p]["stdout"] # <<>>
    /\ queue[p]["stderr"] # <<>>

----------------------------------------------------------------------------
\* C13: absent read errors a drain thread exists from the spawn of its handle
\* on, is started only there, alternates between reading and putting exactly
\* the chunk it read, ends only at a read that finds the pipe empty and the
\* child gone, closes its stream in that very step and at no other time, and
\* once ended reads and puts nothing more; if it is scheduled fairly it ends
\* once the child has terminated.
C13_State ==
    \A h \in Handles : \A s \in Streams :
        /\ thread[h][s] \in {"none", "reading", "put", "terminated"}
        /\ thread[h][s] = "none" <=> proc[h] = "none"
        /\ closed[h][s] <=> thread[h][s] = "terminated"
        /\ line[h][s] # <<>> <=> thread[h][s] = "put"
        /\ thread[h][s] = "terminated" => (pipe[h][s] = <<>> /\ proc[h] = "exited")

C13_Step ==
    \A h \in Handles : \A s \in Streams :
        /\ thread'[h][s] # thread[h][s] =>
              \/ /\ thread[h][s] = "none" /\ thread'[h][s] = "reading"
                 /\ pc = "spawn" /\ phase = h
              \/ /\ thread[h][s] = "reading" /\ thread'[h][s] = "put"
                 /\ line'[h][s] \o pipe'[h][s] = pipe[h][s]
                 /\ queue'[h][s] = queue[h][s]
              \/ /\ thread[h][s] = "put" /\ thread'[h][s] = "reading"
                 /\ queue'[h][s] = Append(queue[h][s], line[h][s])
                 /\ pipe'[h][s] = pipe[h][s]
              \/ /\ thread[h][s] = "reading" /\ thread'[h][s] = "terminated"
                 /\ pipe[h][s] = <<>>
                 /\ ~closed[h][s] /\ closed'[h][s]
                 /\ queue'[h][s] = queue[h][s]
        /\ Len(queue'[h][s]) > Len(queue[h][s]) => thread[h][s] = "put"
        /\ Len(pipe'[h][s]) < Len(pipe[h][s]) => thread[h][s] = "reading"
        /\ thread[h][s] = "terminated" => (pipe'[h][s] = pipe[h][s] /\ closed'[h][s])

----------------------------------------------------------------------------
\* C14: a handle has its process, its two queues and its two drain threads
\* together or not at all, and they stay for good; a queue grows only by its
\* own drain thread putting the chunk it holds, with every other queue left as
\* it is, and shrinks only by write_contents taking its head while working on
\* that queue of the handle p; a pipe is read only by its own drain thread,
\* never by a step of write_contents.
C14_State ==
    \A h \in Handles : \A s \in Streams :
        /\ hasQueue[h][s] <=> proc[h] # "none"
        /\ thread[h][s] # "none" <=> proc[h] # "none"
        /\ ~hasQueue[h][s] => queue[h][s] = <<>>

C14_Step ==
    \A h \in Handles : \A s \in Streams :
        /\ hasQueue[h][s] => hasQueue'[h][s]
        /\ thread[h][s] # "none" => thread'[h][s] # "none"
        /\ queue'[h][s] # queue[h][s] =>
              \/ /\ thread[h][s] = "put" /\ thread'[h][s] = "reading"
                 /\ queue'[h][s] = Append(queue[h][s], line[h][s])
                 /\ \A g \in Handles : \A t \in Streams :
                       <<g, t>> # <<h, s>> => queue'[g][t] = queue[g][t]
                 /\ UNCHANGED callerVars
              \/ /\ InWriteContents /\ wcpc = "get" /\ p = h /\ cur = s
                 /\ queue'[h][s] = Tail(queue[h][s])
                 /\ thread' = thread /\ line' = line
        /\ Len(pipe'[h][s]) < Len(pipe[h][s]) =>
              (thread[h][s] = "reading" /\ thread'[h][s] = "put" /\ UNCHANGED callerVars)
        /\ callerVars' # callerVars => (pipe' = pipe /\ line' = line /\ closed' = closed)

C14_Ownership == [](C14_State) /\ [][C14_Step]_vars

\* Both drain threads of the executable have put a chunk into their own queue.
C14_Witness ==
    /\ queue[2]["stdout"] # <<>>
    /\ queue[2]["stderr"] # <<>>
    /\ Head(queue[2]["stdout"]) # Head(queue[2]["stderr"])

----------------------------------------------------------------------------
\* C15: a child that exited with a non-zero code makes no call fail (the only
\* exception that ever reaches the caller is a failed spawn); the final
\* write_contents on such a child still delivers exactly what it found queued;
\* and do_execute, for the executable, then sends one diagnostic, after all of
\* the executable's output, and returns normally, while for exit code 0 it
\* sends none.
ExitDiags(h) == SelectSeq(iopub, LAMBDA m : m = Diag(h, "exit code"))

C15_State ==
    /\ raised \in {"none", "SpawnError"}
    /\ (pc = "return" /\ p = 2) =>
          IF returncode[2] = <<0>>
          THEN ExitDiags(2) = <<>>
          ELSE /\ Len(ExitDiags(2)) = 1
               /\ iopub[Len(iopub)] = Diag(2, "exit code")
    /\ (pc # "return" /\ p = 2) => ExitDiags(2) = <<>>

C15_Step ==
    /\ (pc = "check" /\ pc' # "check" /\ p = 2) => (pc' = "return" /\ raised' = "none")
    /\ (pc = "final_wc" /\ wcpc = "get" /\ wcpc' # "get" /\ returncode[p] # <<0>>) =>
          /\ raised' = "none"
          /\ Callbacks' = IF snapq # <<>>
                          THEN Append(Callbacks, Callback(p, cur, Flatten(snapq)))
                          ELSE Callbacks

C15_NonZeroExitIsOrdinary == [](C15_State) /\ [][C15_Step]_vars

\* The executable exited with code 1; its output was delivered by the final
\* write_contents, then the diagnostic was sent and do_execute returned.
C15_Witness ==
    /\ pc = "return" /\ p = 2 /\ returncode[2] = <<1>>
    /\ Len(iopub) >= 2
    /\ iopub[Len(iopub)] = Diag(2, "exit code")
    /\ IsCallback(iopub[Len(iopub) - 1])
    /\ iopub[Len(iopub) - 1].handle = 2

----------------------------------------------------------------------------
\* C16: the executable is spawned (or its spawn attempted) only when poll has
\* reported the compiler exited with code 0 and the final write_contents on
\* the compiler has returned; when the compiler's code is not 0, no second
\* process exists, one diagnostic follows the compiler's output as the last
\* message and do_execute has returned; and from the spawn of the executable
\* on nothing of the compiler's output is delivered.
C16_State ==
    /\ (phase = 2 \/ proc[2] # "none" \/ p = 2) =>
          /\ returncode[1] = <<0>>
          /\ proc[1] = "exited"
          /\ FinalFlushDone(1)
    /\ (returncode[1] # <<>> /\ returncode[1] # <<0>> /\ FinalFlushDone(1)) =>
          /\ proc[2] = "none" /\ phase = 1 /\ p = 1
          /\ pc \in {"check", "return"}
          /\ pc = "return" =>
                /\ Len(ExitDiags(1)) = 1
                /\ iopub[Len(iopub)] = Diag(1, "exit code")
          /\ pc = "check" => ExitDiags(1) = <<>>
    /\ returncode[1] \in {<<>>, <<0>>} => ExitDiags(1) = <<>>
    /\ \A i \in 1..Len(iopub) : \A j \in 1..Len(iopub) :
          (i < j /\ iopub[i] = Diag(2, "running cmd")) => iopub[j].handle # 1

C16_Step ==
    /\ (proc[2] = "none" /\ proc'[2] # "none") =>
          (pc = "spawn" /\ phase = 2 /\ returncode[1] = <<0>> /\ wcpc = "idle")
    /\ phase = 2 => \A s \in Streams : Delivered(iopub', 1, s) = Delivered(iopub, 1, s)

C16_CompileThenExecute == [](C16_State) /\ [][C16_Step]_vars

\* The executable's output is being delivered while a chunk of the compiler's
\* output, queued after the compiler's final write_contents, stays undelivered.
C16_Witness ==
    /\ p = 2
    /\ \E s \in Streams : queue[1][s] # <<>>
    /\ \E s \in Streams : Delivered(iopub, 2, s) # <<>>

----------------------------------------------------------------------------
\* C17: what a stream's callback has received is always an initial part of
\* what the child wrote to that stream, in the same order; inside one
\* write_contents call the stdout queue is handled first: a callback is only
\* ever made for the stream being worked on, the call turns to stderr only in
\* the step that ends the stdout part (where the stdout callback is made), and
\* the stderr snapshot is taken after that.  Across streams the order of
\* writing is not kept (the witness).
IsPrefix(a, b) == Len(a) <= Len(b) /\ a = SubSeq(b, 1, Len(a))

C17_State ==
    /\ \A h \in Handles : \A s \in Streams : IsPrefix(Delivered(iopub, h, s), written[h][s])
    /\ ~InWriteContents => cur = "stdout"

C17_Step ==
    /\ Callbacks' # Callbacks =>
          /\ Callbacks' = Append(Callbacks, Callback(p, cur, res))
          /\ InWriteContents /\ wcpc = "get" /\ size = 0
    /\ (cur = "stdout" /\ cur' = "stderr") =>
          /\ InWriteContents /\ wcpc = "get" /\ size = 0 /\ wcpc' = "qsize"
          /\ res # <<>> => Callbacks' = Append(Callbacks, Callback(p, "stdout", res))
    /\ (wcpc = "qsize" /\ wcpc' = "get") => snapq' = queue[p][cur]
    /\ (InWriteContents /\ cur = "stderr" /\ cur' = "stdout") =>
          (wcpc = "get" /\ size = 0 /\ ~InWriteContents')

C17_OrderWithinStreamOnly == [](C17_State) /\ [][C17_Step]_vars

\* The child wrote to stderr first and to stdout afterwards, and the stdout
\* callback was made before the stderr callback.
C17_Witness ==
    \E i \in 1..Len(iopub) : \E j \in 1..Len(iopub) :
        /\ i < j
        /\ IsCallback(iopub[i]) /\ IsCallback(iopub[j])
        /\ iopub[i].handle = iopub[j].handle
        /\ iopub[i].name = "stdout" /\ iopub[j].name = "stderr"
        /\ Head(iopub[j].data) < Head(iopub[i].data)

----------------------------------------------------------------------------
\* C18: while read_all_from_queue is in its loop the queue holds at least as
\* many chunks as the loop still has to remove (the snapshot length minus the
\* chunks already removed), so get_nowait never finds the queue empty and
\* queue.Empty is never raised; a queue changes only by an append of one chunk
\* (its own reader thread) or by the removal of its head by the one
\* write_contents call working on it.
C18_State ==
    /\ raised # "Empty"
    /\ (InWriteContents /\ wcpc = "get") =>
          /\ size \in 0..Len(snapq)
          /\ Len(queue[p][cur]) >= size
          /\ size # 0 => queue[p][cur] # <<>>

C18_Step ==
    \A h \in Handles : \A s \in Streams :
        queue'[h][s] # queue[h][s] =>
            \/ /\ thread[h][s] = "put"
               /\ queue'[h][s] = Append(queue[h][s], line[h][s])
            \/ /\ InWriteContents /\ wcpc = "get" /\ size # 0
               /\ h = p /\ s = cur
               /\ queue[h][s] # <<>>
               /\ queue'[h][s] = Tail(queue[h][s])

C18_GetNeverEmpty == [](C18_State) /\ [][C18_Step]_vars

\* The loop on the stderr queue has removed the chunk of its snapshot without
\* an error while the reader thread appended another chunk to the same queue.
C18_Witness ==
    /\ InWriteContents /\ wcpc = "get" /\ cur = "stderr"
    /\ raised = "none"
    /\ size = 0 /\ res # <<>>
    /\ Len(queue[p]["stderr"]) = 1
    /\ Head(queue[p]["stderr"]) # res

----------------------------------------------------------------------------
\* C19: every chunk a drain thread holds for queue.put, every chunk in a queue
\* and every chunk a step appends to a queue is at least 1 and at most
\* ChunkSize bytes long, whatever the sizes of the child's writes.
ChunkOk(c) == Len(c) >= 1 /\ Len(c) <= ChunkSize

C19_State ==
    \A h \in Handles : \A s \in Streams :
        /\ \A i \in 1..Len(queue[h][s]) : ChunkOk(queue[h][s][i])
        /\ thread[h][s] = "put" => ChunkOk(line[h][s])

C19_Step ==
    \A h \in Handles : \A s \in Streams :
        Len(queue'[h][s]) > Len(queue[h][s]) =>
            /\ Len(queue'[h][s]) = Len(queue[h][s]) + 1
            /\ ChunkOk(queue'[h][s][Len(queue'[h][s])])

C19_ChunkLength == [](C19_State) /\ [][C19_Step]_vars

\* A write of more than ChunkSize bytes has been split: a full chunk of
\* ChunkSize bytes is queued and the thread holds the remaining byte.
C19_Witness ==
    \E h \in Handles : \E s \in Streams :
        /\ Len(written[h][s]) > ChunkSize
        /\ queue[h][s] # <<>>
        /\ Len(queue[h][s][1]) = ChunkSize
        /\ thread[h][s] = "put"
        /\ Len(line[h][s]) = Len(written[h][s]) - ChunkSize

====
